---- MODULE Spec2Model ----
(***************************************************************************)
(* Model of extensions/amp-viewer-integration/0.1/highlight-handler.js:    *)
(* the request parser getHighlightParam and the HighlightHandler           *)
(* controller (locate, style, centre, animate, dismiss).                   *)
(*                                                                         *)
(* Numbers that the code may produce as halves (the centring offset is a   *)
(* division by 2) are kept in HALF UNITS: an offset x is stored as 2*x.    *)
(***************************************************************************)
EXTENDS Integers, Sequences, FiniteSets, TLC

VARIABLES
  hash,     \* getHighlightParam: the location hash, a list of key/value pairs
  ret,      \* getHighlightParam: its outcome (pending, null, request, exception)
  constructed,        \* the HighlightHandler constructor has run
  doc,                \* what the locator finds in the document body
  highlightedNodes_,  \* this.highlightedNodes_: Null or Arr(a list of nodes)
  style,              \* every node's style overrides (backgroundColor, color)
  styleWrites,        \* per node, how many times highlight styling was applied
  rect,               \* every node's layout rectangle (top, bottom)
  viewport,           \* the viewport: height, paddingTop, scrollTop (half units)
  setScrollTopCalls,  \* the arguments of viewport.setScrollTop, in order
  visibility,         \* viewer.getVisibilityState()
  sent,               \* the highlightState messages sent to the viewer, in order
  visListener,        \* the onVisibilityChanged callback: registered, called
  clickListener,      \* the one-shot click listener on the body is registered
  dismissHandler,     \* the highlightDismiss handler is registered
  body,               \* the sentinel elements present in the document body
  animations,         \* the sentinels whose scroll animation has not completed
  animateCalls,       \* how many times animateScrollToTop_ was called
  locateCalls,        \* how many times the locator was invoked
  effects,            \* the handler's changes of the document, its messages and
                      \* its viewport requests, in the order they were made
  calcResult          \* the result of a call of calcTopToCenterHighlightedNodes_

parserVars == <<hash, ret>>
docVars == <<doc, rect, viewport, visibility>>
handlerVars ==
  <<constructed, highlightedNodes_, style, styleWrites, setScrollTopCalls,
    sent, visListener, clickListener, dismissHandler, body, animations,
    animateCalls, locateCalls, effects>>
vars == <<parserVars, docVars, handlerVars, calcResult>>

(***************************************************************************)
(* Program constants.                                                      *)
(***************************************************************************)
HIGHLIGHT_PARAM_LENGTH_LIMIT == 102400
NUM_SENTENCES_LIMIT == 15
NUM_ALL_CHARS_LIMIT == 1500
SCROLL_ANIMATION_HEIGHT_LIMIT == 1000
\* stands for Number.MAX_VALUE (1.79e308): above every coordinate drawn
Number_MAX_VALUE == 1000000000

(***************************************************************************)
(* Bounds of the model.                                                    *)
(***************************************************************************)
\* the longest list of entries of `s` that is drawn
MaxSens == 16
\* the number of nodes of the document the locator may match
MaxNodes == 2

(***************************************************************************)
(* JSON values, as JSON.parse produces them.  A string is kept by its      *)
(* length (its characters are never read by the parser).                   *)
(***************************************************************************)
Undefined == [kind |-> "undefined"]
JNull == [kind |-> "null"]
JNumber == [kind |-> "number"]
JBool == [kind |-> "bool"]
JString(n) == [kind |-> "string", len |-> n]
JArray(es) == [kind |-> "array", elems |-> es]
\* an object whose only field of interest is `s` (Undefined: no such field)
JObject(s) == [kind |-> "object", s |-> s]

\* the entries a list is filled with, and the entries one place may hold instead
BaseEntries == {JString(1), JString(100), JString(750)}
OddEntries ==
  {JString(0), JString(1), JString(101), JString(751), JString(1500),
   JString(1501), JNumber, JNull, JObject(Undefined), JArray(<<>>)}

\* n copies of b, the entry at place p (if any) replaced by o
ListOf(n, b, p, o) == [i \in 1..n |-> IF i = p THEN o ELSE b]

SensLists ==
  {ListOf(n, b, p, o) : n \in 0..MaxSens, b \in BaseEntries,
                        p \in 0..MaxSens, o \in OddEntries}

\* the values of the field `s`
SValues ==
  {Undefined, JNull, JNumber, JString(3), JObject(Undefined)}
    \cup {JArray(es) : es \in SensLists}

\* the values the text of the parameter may denote
Payloads ==
  {JNull, JNumber, JBool, JString(5), JArray(<<>>), JArray(<<JString(1)>>)}
    \cup {JObject(s) : s \in SValues}

RECURSIVE SumSer(_, _)
RECURSIVE SerLen(_)
\* the length of the shortest JSON text of a value
SerLen(v) ==
  CASE v.kind = "null" -> 4
    [] v.kind = "number" -> 1
    [] v.kind = "bool" -> 4
    [] v.kind = "string" -> v.len + 2
    [] v.kind = "array" ->
         2 + SumSer(v.elems, Len(v.elems))
           + (IF Len(v.elems) > 0 THEN Len(v.elems) - 1 ELSE 0)
    [] v.kind = "object" ->
         IF v.s = Undefined THEN 2 ELSE 6 + SerLen(v.s)
SumSer(es, n) == IF n = 0 THEN 0 ELSE SumSer(es, n - 1) + SerLen(es[n])

\* A parameter value: its length in characters and what its text is: empty,
\* text that is no JSON, or the JSON text of a value (padded with white
\* space up to `length`).
EmptyParam == [length |-> 0, text |-> [kind |-> "empty"]]
GarbageParam(n) == [length |-> n, text |-> [kind |-> "garbage"]]
JsonParam(n, v) == [length |-> n, text |-> [kind |-> "json", value |-> v]]

BoundaryLengths ==
  {HIGHLIGHT_PARAM_LENGTH_LIMIT - 1, HIGHLIGHT_PARAM_LENGTH_LIMIT,
   HIGHLIGHT_PARAM_LENGTH_LIMIT + 1}

Params ==
  {EmptyParam}
    \cup {GarbageParam(n) : n \in {1} \cup BoundaryLengths}
    \cup UNION {{JsonParam(n, v) : n \in {SerLen(v)} \cup BoundaryLengths} :
                   v \in Payloads}

Pair(k, v) == [key |-> k, value |-> v]

Hashes ==
  {<<>>, <<Pair("foo", EmptyParam)>>}
    \cup {<<Pair("highlight", p)>> : p \in Params}
    \cup {<<Pair("highlight", p), Pair("foo", EmptyParam)>> :
            p \in {EmptyParam, JsonParam(4, JNull)}}

(***************************************************************************)
(* Imported helpers of getHighlightParam.                                  *)
(***************************************************************************)
RECURSIVE LastValue(_, _, _)
\* the value of the last pair of h[1..n] whose key is k, Undefined if none
LastValue(h, n, k) ==
  IF n = 0 THEN Undefined
  ELSE IF h[n].key = k THEN h[n].value ELSE LastValue(h, n - 1, k)

\* parseQueryString(hash)[key]
parseQueryString(h, key) == LastValue(h, Len(h), key)

\* parseJson(param): JSON.parse, which throws on a text that is no JSON
parseJson(param) ==
  IF param.text.kind = "json"
  THEN [kind |-> "value", value |-> param.text.value]
  ELSE [kind |-> "throw", error |-> "SyntaxError"]

(***************************************************************************)
(* getHighlightParam                                                       *)
(***************************************************************************)
RetNull == [kind |-> "null"]
RetRequest(sens) == [kind |-> "request", sentences |-> sens]
RetThrow(e) == [kind |-> "exception", error |-> e]
Pending == [kind |-> "pending"]

\* !param: the parameter is missing or the empty string
Falsy(param) == param = Undefined \/ param.length = 0

\* highlight['s'], as the language evaluates it (lines 82): reading a
\* property of null throws, a primitive or an array has no property `s`
GetS(highlight) ==
  CASE highlight.kind = "null" -> [kind |-> "throw", error |-> "TypeError"]
    [] highlight.kind = "object" -> [kind |-> "value", value |-> highlight.s]
    [] OTHER -> [kind |-> "value", value |-> Undefined]

\* typeof sen != 'string' || !sen
InvalidSentence(sen) == sen.kind # "string" \/ sen.len = 0

\* (a slip: best-effort parsing, the sentences before the first violation
\* are returned)
RECURSIVE SentenceLoopPartial(_, _, _)
SentenceLoopPartial(sens, i, sum) ==
  IF i > Len(sens) THEN RetRequest(sens)
  ELSE IF InvalidSentence(sens[i]) THEN RetRequest(SubSeq(sens, 1, i - 1))
  ELSE IF sum + sens[i].len > NUM_ALL_CHARS_LIMIT
    THEN RetRequest(SubSeq(sens, 1, i - 1))
  ELSE SentenceLoopPartial(sens, i + 1, sum + sens[i].len)

\* (a slip: a cumulative length of exactly the limit rejected)
RECURSIVE SentenceLoopAtLimit(_, _, _)
SentenceLoopAtLimit(sens, i, sum) ==
  IF i > Len(sens) THEN RetRequest(sens)
  ELSE IF InvalidSentence(sens[i]) THEN RetNull
  ELSE IF sum + sens[i].len >= NUM_ALL_CHARS_LIMIT THEN RetNull
  ELSE SentenceLoopAtLimit(sens, i + 1, sum + sens[i].len)

RECURSIVE SentenceLoop(_, _, _)
\* the loop of lines 87-99 from index i (1-based) with the running sum
SentenceLoop(sens, i, sum) ==
  IF i > Len(sens) THEN RetRequest(sens)
  ELSE IF InvalidSentence(sens[i]) THEN RetNull
  ELSE IF sum + sens[i].len > NUM_ALL_CHARS_LIMIT THEN RetNull
  ELSE SentenceLoop(sens, i + 1, sum + sens[i].len)

\* (a slip: the limit itself rejected)
TooLongAtLimit(param) == param.length >= HIGHLIGHT_PARAM_LENGTH_LIMIT

\* param.length > HIGHLIGHT_PARAM_LENGTH_LIMIT
TooLong(param) == param.length > HIGHLIGHT_PARAM_LENGTH_LIMIT

\* !(sens instanceof Array) || sens.length > NUM_SENTENCES_LIMIT
BadList(sens) ==
  sens.kind # "array" \/ Len(sens.elems) > NUM_SENTENCES_LIMIT

getHighlightParamOf(h) ==
  LET param == parseQueryString(h, "highlight") IN
  IF Falsy(param) \/ TooLong(param) THEN RetNull
  ELSE LET parsed == parseJson(param) IN
    IF parsed.kind = "throw" THEN RetThrow(parsed.error)
    ELSE LET got == GetS(parsed.value) IN
      IF got.kind = "throw" THEN RetThrow(got.error)
      ELSE IF BadList(got.value) THEN RetNull
      ELSE SentenceLoop(got.value.elems, 1, 0)

(***************************************************************************)
(* The document, the viewport and the viewer, as the handler sees them.    *)
(***************************************************************************)
Null == [kind |-> "null"]
NodeIds == 1..MaxNodes
Rect(t, b) == [top |-> t, bottom |-> b]
Viewport(h, p) == [height |-> h, paddingTop |-> p, scrollTop |-> 0]

\* The locator's outcomes: findSentences finds no ranges; it finds ranges
\* and markTextRangeList yields null, an empty list, or a list of nodes.
NoRanges == [sens |-> FALSE, nodes |-> Null]
Ranges(ns) == [sens |-> TRUE, nodes |-> ns]
\* the lists of distinct nodes
NodeLists ==
  {ns \in UNION {[1..k -> NodeIds] : k \in 1..MaxNodes} :
     \A i, j \in 1..Len(ns) : ns[i] = ns[j] => i = j}
\* a list of nodes, as a value that may also be Null
Arr(ns) == [kind |-> "array", elems |-> ns]
Docs ==
  {NoRanges, Ranges(Null), Ranges(Arr(<<>>))}
    \cup {Ranges(Arr(ns)) : ns \in NodeLists}

\* Layouts: node i lies at base + (i - 1) * gap and is h high.
Layout(base, gap, h) ==
  [n \in NodeIds |-> Rect(base + (n - 1) * gap, base + (n - 1) * gap + h)]
Layouts ==
  {Layout(base, gap, 20) : base \in {-100, 301, 1000, 2000}, gap \in {40, 1000}}
    \cup {Layout(301, 0, 0)}
Viewports == {Viewport(800, 0), Viewport(800, 51)}
VisibilityStates == {"visible", "hidden", "prerender"}

NoStyle == [backgroundColor |-> "", color |-> ""]
HighlightStyle == [backgroundColor |-> "#ff0", color |-> "#333"]

\* the nodes of a list value
Nodes(a) == {a.elems[i] : i \in 1..Len(a.elems)}

(***************************************************************************)
(* calcTopToCenterHighlightedNodes_ (the result is in half units)          *)
(***************************************************************************)
Min(a, b) == IF a < b THEN a ELSE b
Max(a, b) == IF a > b THEN a ELSE b

RECURSIVE CalcLoop(_, _, _, _, _)
\* the loop of lines 210-214 from index i: <<minTop, maxBottom>>
CalcLoop(nodes, r, i, minTop, maxBottom) ==
  IF i > Len(nodes.elems) THEN <<minTop, maxBottom>>
  ELSE CalcLoop(nodes, r, i + 1, Min(minTop, r[nodes.elems[i]].top),
                Max(maxBottom, r[nodes.elems[i]].bottom))

calcTopToCenterHighlightedNodes_(nodes, r, vp) ==
  IF nodes = Null THEN 0
  ELSE LET mm == CalcLoop(nodes, r, 1, Number_MAX_VALUE, 0)
           minTop == mm[1]
           maxBottom == mm[2]
           height == vp.height - vp.paddingTop
           pos2 == maxBottom + minTop - height
       IN IF minTop >= maxBottom THEN 0
          ELSE IF maxBottom - minTop > height THEN 2 * minTop
          ELSE IF pos2 > 0 THEN pos2 ELSE 0

\* Math.floor(top) of an offset kept in half units, in whole units
Floor(top2) == top2 \div 2

(***************************************************************************)
(* HighlightHandler                                                        *)
(***************************************************************************)
Msg(state) == [state |-> state]
FoundMsg(scroll) == [state |-> "found", scroll |-> scroll]

\* sendHighlightState_(state, opt_params): the messages after sending msg
sendHighlightState_(msgs, msg) == Append(msgs, msg)

\* (a slip: an empty list of nodes is kept)
findHighlightedNodesKeepingEmpty(d) ==
  IF ~d.sens THEN Null ELSE d.nodes

\* findHighlightedNodes_: the value of this.highlightedNodes_ afterwards
findHighlightedNodes_(d) ==
  IF ~d.sens THEN Null
  ELSE IF d.nodes = Null THEN Null
  ELSE IF Len(d.nodes.elems) = 0 THEN Null
  ELSE d.nodes

\* (a slip: the loop starts at the second node)
ApplyHighlightFromSecond(st, ns) ==
  [n \in NodeIds |->
     IF \E i \in 2..Len(ns.elems) : ns.elems[i] = n
     THEN HighlightStyle ELSE st[n]]

\* lines 170-174: the styles after highlighting every node of ns
ApplyHighlight(st, ns) ==
  [n \in NodeIds |-> IF n \in Nodes(ns) THEN HighlightStyle ELSE st[n]]

\* resetStyles(node, ['backgroundColor', 'color']): the overrides removed
resetStyles(nodeStyle) == [nodeStyle EXCEPT !.backgroundColor = "", !.color = ""]

\* (a slip: dismissal toggles the highlight)
ToggledStyle(hn, st) ==
  IF hn = Null THEN st
  ELSE [n \in NodeIds |->
          IF n \in Nodes(hn)
          THEN (IF st[n] = HighlightStyle THEN resetStyles(st[n])
                ELSE HighlightStyle)
          ELSE st[n]]

\* dismissHighlight_: the styles afterwards
DismissedStyle(hn, st) ==
  IF hn = Null THEN st
  ELSE [n \in NodeIds |-> IF n \in Nodes(hn) THEN resetStyles(st[n]) ELSE st[n]]

\* (a slip: dismissal clears the held node set)
NodesAfterDismissCleared(hn) == Null

\* dismissHighlight_ does not assign this.highlightedNodes_
NodesAfterDismiss(hn) == hn

\* the entries of the effects log
Effect(op) == [op |-> op]
SendEffect(state) == [op |-> "send", state |-> state]
SentinelEffect(op, sentinel) == [op |-> op, sentinel |-> sentinel]
Logged(op) == \E i \in 1..Len(effects) : effects[i].op = op

\* the log after a dismissal: the reset of the highlight is logged when it
\* changes a style, once
LogReset(effs, changed) ==
  IF changed /\ ~Logged("resetStyles")
  THEN Append(effs, Effect("resetStyles")) ELSE effs

dismissHighlight_ ==
  /\ style' = DismissedStyle(highlightedNodes_, style)
  /\ highlightedNodes_' = NodesAfterDismiss(highlightedNodes_)
  /\ effects' =
       LogReset(effects, DismissedStyle(highlightedNodes_, style) # style)

\* (a slip: auto_scroll is sent before the sentinel is in the document)
animateScrollToTopSendingFirst(top, msgs, effs) ==
  LET sentinel == [id |-> animateCalls + 1, top |-> Floor(top)] IN
  /\ body' = body \cup {sentinel}
  /\ sent' = sendHighlightState_(msgs, Msg("auto_scroll"))
  /\ animations' = animations \cup {sentinel}
  /\ animateCalls' = animateCalls + 1
  /\ effects' = effs \o <<SendEffect("auto_scroll"),
                          SentinelEffect("appendChild", sentinel),
                          SentinelEffect("animateScrollIntoView", sentinel)>>

\* animateScrollToTop_(top), run when the messages sent so far are msgs: a
\* sentinel is appended to the body, auto_scroll is sent, and the animated
\* scroll to the sentinel is requested
animateScrollToTop_(top, msgs, effs) ==
  LET sentinel == [id |-> animateCalls + 1, top |-> Floor(top)] IN
  /\ body' = body \cup {sentinel}
  /\ sent' = sendHighlightState_(msgs, Msg("auto_scroll"))
  /\ animations' = animations \cup {sentinel}
  /\ animateCalls' = animateCalls + 1
  /\ effects' = effs \o <<SentinelEffect("appendChild", sentinel),
                          SendEffect("auto_scroll"),
                          SentinelEffect("animateScrollIntoView", sentinel)>>

HandlerIdle ==
  /\ constructed = FALSE
  /\ highlightedNodes_ = Null
  /\ style = [n \in NodeIds |-> NoStyle]
  /\ styleWrites = [n \in NodeIds |-> 0]
  /\ setScrollTopCalls = <<>>
  /\ sent = <<>>
  /\ visListener = [registered |-> FALSE, called |-> FALSE]
  /\ clickListener = FALSE
  /\ dismissHandler = FALSE
  /\ body = {}
  /\ animations = {}
  /\ animateCalls = 0
  /\ locateCalls = 0
  /\ effects = <<>>

Init ==
  /\ hash = <<>>
  /\ ret = Pending
  /\ HandlerIdle
  /\ doc \in Docs
  /\ rect \in Layouts
  /\ viewport \in Viewports
  /\ visibility \in VisibilityStates
  /\ calcResult = Null

\* (a slip: the limit itself counts as exceeding it)
ReachesAnimationLimit(scrollTop) ==
  scrollTop >= 2 * SCROLL_ANIMATION_HEIGHT_LIMIT

\* line 180: scrollTop > SCROLL_ANIMATION_HEIGHT_LIMIT (in half units)
ExceedsAnimationLimit(scrollTop) ==
  scrollTop > 2 * SCROLL_ANIMATION_HEIGHT_LIMIT

\* new HighlightHandler(ampdoc, highlightInfo): the constructor, which runs
\* initHighlight_
Constructor ==
  /\ ~constructed
  /\ constructed' = TRUE
  /\ locateCalls' = locateCalls + 1
  /\ highlightedNodes_' = findHighlightedNodes_(doc)
  /\ IF highlightedNodes_' = Null
     THEN /\ sent' = sendHighlightState_(sent, Msg("not_found"))
          /\ effects' = Append(effects, SendEffect("not_found"))
          /\ UNCHANGED <<style, styleWrites, setScrollTopCalls, viewport,
                         visListener, clickListener, body, animations,
                         animateCalls>>
     ELSE LET scrollTop ==
                calcTopToCenterHighlightedNodes_(highlightedNodes_', rect,
                                                 viewport)
              found == sendHighlightState_(sent, FoundMsg(scrollTop))
              styled == effects \o <<SendEffect("found"), Effect("highlight")>>
          IN
          /\ style' = ApplyHighlight(style, highlightedNodes_')
          /\ styleWrites' =
               [n \in NodeIds |->
                  IF n \in Nodes(highlightedNodes_')
                  THEN styleWrites[n] + 1 ELSE styleWrites[n]]
          /\ IF visibility = "visible"
             THEN /\ animateScrollToTop_(scrollTop, found, styled)
                  /\ UNCHANGED <<setScrollTopCalls, viewport, visListener>>
             ELSE /\ IF ExceedsAnimationLimit(scrollTop)
                     THEN LET to == scrollTop - 2 * SCROLL_ANIMATION_HEIGHT_LIMIT
                          IN /\ setScrollTopCalls' = Append(setScrollTopCalls, to)
                             /\ viewport' = [viewport EXCEPT !.scrollTop = to]
                     ELSE UNCHANGED <<setScrollTopCalls, viewport>>
                  /\ visListener' = [registered |-> TRUE, called |-> FALSE]
                  /\ sent' = found
                  /\ effects' = styled
                  /\ UNCHANGED <<body, animations, animateCalls>>
          /\ clickListener' = TRUE
  /\ UNCHANGED <<parserVars, doc, rect, visibility, dismissHandler, calcResult>>

\* setupMessaging(messaging): the highlightDismiss handler is registered
setupMessaging ==
  /\ constructed
  /\ ~dismissHandler
  /\ dismissHandler' = TRUE
  /\ UNCHANGED <<parserVars, docVars, constructed, highlightedNodes_, style,
                 styleWrites, setScrollTopCalls, sent, visListener,
                 clickListener, body, animations, animateCalls, locateCalls,
                 effects, calcResult>>

\* (a slip: the `called` flag is not consulted)
ReturnsEarlyIgnoringCalled(v) == v # "visible"

\* (a slip: the visibility state is not consulted)
ReturnsEarlyIgnoringState(v) == visListener.called

\* (a slip: the comparison with 'visible' is inverted)
ReturnsEarlyInverted(v) == visListener.called \/ v = "visible"

\* (a slip: a dismissal cancels the deferred animation)
ReturnsEarlyIfDismissed(v) ==
  visListener.called \/ v # "visible" \/ Logged("resetStyles")

\* line 187: called || this.viewer_.getVisibilityState() != 'visible'
ReturnsEarly(v) == visListener.called \/ v # "visible"

\* (a slip: the offset reported with found is reused)
CallbackTopAsReported == sent[1].scroll

\* line 190: this.calcTopToCenterHighlightedNodes_(), computed in the callback
CallbackTop ==
  calcTopToCenterHighlightedNodes_(highlightedNodes_, rect, viewport)

\* the viewer changes the visibility state to v and fires
\* onVisibilityChanged: the callback of lines 185-192 runs if registered
VisibilityChanged(v) ==
  /\ constructed
  /\ visibility' = v
  /\ IF visListener.registered /\ ~ReturnsEarly(v)
     THEN /\ animateScrollToTop_(CallbackTop, sent, effects)
          /\ visListener' = [visListener EXCEPT !.called = TRUE]
     ELSE UNCHANGED <<sent, body, animations, animateCalls, visListener,
                      effects>>
  /\ UNCHANGED <<parserVars, doc, rect, viewport, constructed,
                 highlightedNodes_, style, styleWrites, setScrollTopCalls,
                 clickListener, dismissHandler, locateCalls, calcResult>>

\* (a slip: listen instead of listenOnce, the click listener stays)
BodyClickKeepingListener ==
  /\ constructed
  /\ IF clickListener
     THEN dismissHighlight_ /\ clickListener' = TRUE
     ELSE UNCHANGED <<style, highlightedNodes_, effects, clickListener>>
  /\ UNCHANGED <<parserVars, docVars, constructed,
                 styleWrites, setScrollTopCalls, sent, visListener,
                 dismissHandler, body, animations, animateCalls, locateCalls,
                 calcResult>>

\* a click on the document body: the one-shot listener, if registered, is
\* removed and runs dismissHighlight_
BodyClick ==
  /\ constructed
  /\ IF clickListener
     THEN dismissHighlight_ /\ clickListener' = FALSE
     ELSE UNCHANGED <<style, highlightedNodes_, effects, clickListener>>
  /\ UNCHANGED <<parserVars, docVars, constructed,
                 styleWrites, setScrollTopCalls, sent, visListener,
                 dismissHandler, body, animations, animateCalls, locateCalls,
                 calcResult>>

\* the viewer sends highlightDismiss: the registered handler runs
\* dismissHighlight_
DismissCommand ==
  /\ dismissHandler
  /\ dismissHighlight_
  /\ UNCHANGED <<parserVars, docVars, constructed,
                 styleWrites, setScrollTopCalls, sent, visListener,
                 clickListener, dismissHandler, body, animations, animateCalls,
                 locateCalls, calcResult>>

\* the viewport completes the animated scroll to sentinel s: the
\* continuation of lines 244-247 sends shown and removes the sentinel
AnimationDone(s) ==
  /\ s \in animations
  /\ animations' = animations \ {s}
  /\ sent' = sendHighlightState_(sent, Msg("shown"))
  /\ body' = body \ {s}
  /\ viewport' = [viewport EXCEPT !.scrollTop = 2 * s.top]
  /\ effects' = effects \o <<SendEffect("shown"),
                             SentinelEffect("removeChild", s)>>
  /\ UNCHANGED <<parserVars, doc, rect, visibility, constructed,
                 highlightedNodes_, style, styleWrites, setScrollTopCalls,
                 visListener, clickListener, dismissHandler, animateCalls,
                 locateCalls, calcResult>>

\* the document is laid out anew: the nodes' rectangles change
LayoutChange(r) ==
  /\ constructed
  /\ r # rect
  /\ rect' = r
  /\ UNCHANGED <<parserVars, doc, viewport, visibility, handlerVars, calcResult>>

Next ==
  \/ Constructor
  \/ setupMessaging
  \/ \E v \in VisibilityStates : VisibilityChanged(v)
  \/ BodyClick
  \/ DismissCommand
  \/ \E s \in animations : AnimationDone(s)
  \/ \E r \in Layouts : LayoutChange(r)

Spec == Init /\ [][Next]_vars

\* the viewport service completes every animation it was asked for
AnimationCompletes == \E s \in animations : AnimationDone(s)
SpecLive == Init /\ [][Next]_vars /\ WF_vars(AnimationCompletes)

(***************************************************************************)
(* calcTopToCenterHighlightedNodes_ alone, on rectangles drawn per node.   *)
(***************************************************************************)
CalcRects ==
  {Rect(t, t + h) : t \in {-100, 0, 2000}, h \in {0, 20, 80, 1000}}
CalcViewports == {Viewport(800, 0), Viewport(800, 51), Viewport(90, 0)}

CalcInit ==
  /\ hash = <<>>
  /\ ret = Pending
  /\ constructed = TRUE
  /\ doc \in {Ranges(Arr(ns)) : ns \in NodeLists} \cup {NoRanges}
  /\ highlightedNodes_ = findHighlightedNodes_(doc)
  /\ style = [n \in NodeIds |-> NoStyle]
  /\ styleWrites = [n \in NodeIds |-> 0]
  /\ setScrollTopCalls = <<>>
  /\ sent = <<>>
  /\ visListener = [registered |-> FALSE, called |-> FALSE]
  /\ clickListener = FALSE
  /\ dismissHandler = FALSE
  /\ body = {}
  /\ animations = {}
  /\ animateCalls = 0
  /\ locateCalls = 1
  /\ effects = <<>>
  /\ rect \in [NodeIds -> CalcRects]
  /\ viewport \in CalcViewports
  /\ visibility = "visible"
  /\ calcResult = Null

\* one call of calcTopToCenterHighlightedNodes_()
CallCalc ==
  /\ calcResult = Null
  /\ calcResult' =
       [kind |-> "number",
        value |-> calcTopToCenterHighlightedNodes_(highlightedNodes_, rect,
                                                   viewport)]
  /\ UNCHANGED <<parserVars, docVars, handlerVars>>

CalcNext == CallCalc

SpecCalc == CalcInit /\ [][CalcNext]_vars

ParserInit ==
  /\ hash \in Hashes
  /\ ret = Pending
  /\ HandlerIdle
  /\ doc = NoRanges
  /\ rect = [n \in NodeIds |-> Rect(0, 0)]
  /\ viewport = Viewport(800, 0)
  /\ visibility = "visible"
  /\ calcResult = Null

\* one call of getHighlightParam(ampdoc)
getHighlightParam ==
  /\ ret = Pending
  /\ ret' = getHighlightParamOf(hash)
  /\ UNCHANGED <<hash, docVars, handlerVars, calcResult>>

ParserNext == getHighlightParam

SpecParser == ParserInit /\ [][ParserNext]_vars

(***************************************************************************)
(* The data-model invariants of a highlight request, stated on the input   *)
(* independently of the parser's code.                                     *)
(***************************************************************************)
\* the `highlight` parameter of the hash, Undefined when it has none
HighlightParam ==
  IF \E i \in 1..Len(hash) : hash[i].key = "highlight"
  THEN hash[CHOOSE i \in 1..Len(hash) :
              /\ hash[i].key = "highlight"
              /\ \A j \in (i + 1)..Len(hash) : hash[j].key # "highlight"].value
  ELSE Undefined

HasParam == HighlightParam # Undefined
IsJson == HasParam /\ HighlightParam.text.kind = "json"
Payload == HighlightParam.text.value
\* the payload is a value that has fields to read (anything but null)
HasFields == IsJson /\ Payload.kind # "null"
\* the field `s` of the payload
SField == IF Payload.kind = "object" THEN Payload.s ELSE Undefined

RECURSIVE TotalChars(_, _)
TotalChars(es, n) ==
  IF n = 0 THEN 0
  ELSE TotalChars(es, n - 1) + (IF es[n].kind = "string" THEN es[n].len ELSE 0)

IsList(v) == v.kind = "array"
AllNonEmptyStrings(es) ==
  \A i \in 1..Len(es) : es[i].kind = "string" /\ es[i].len >= 1
\* the value of `s` is a list that meets every limit
GoodList(v) ==
  /\ IsList(v)
  /\ Len(v.elems) <= 15
  /\ AllNonEmptyStrings(v.elems)
  /\ TotalChars(v.elems, Len(v.elems)) <= 1500
\* the payload, taken alone, is a valid request
ValidContent == HasFields /\ GoodList(SField)

Returned == ret # Pending

\* C1: a `highlight` parameter longer than 102400 characters yields
\* absence whatever its content, and a parameter of exactly 102400
\* characters with valid content is not rejected.
C1_OversizedIsAbsent ==
  Returned /\ HasParam =>
    /\ HighlightParam.length > 102400 => ret = RetNull
    /\ HighlightParam.length = 102400 /\ ValidContent => ret.kind = "request"

\* an oversized parameter whose content is a valid request was rejected
C1_Witness ==
  /\ Returned /\ HasParam
  /\ HighlightParam.length = 102401
  /\ ValidContent /\ Len(SField.elems) = 15
  /\ ret = RetNull

\* C2: for every payload that has a field `s` to read, if `s` is not a
\* list, has more than 15 entries, holds an entry that is not a string or
\* is the empty string, or exceeds 1500 characters in total, the outcome is
\* absence, and never a request made of part of the entries.
C2_InvalidListIsAbsent ==
  Returned /\ HasFields /\ ~GoodList(SField) =>
    ret = RetNull /\ ret.kind # "request"

\* a list whose 15th entry is the first to break the character limit,
\* parsed (the parameter is not oversized) and rejected as a whole
C2_Witness ==
  /\ Returned /\ HasFields
  /\ HighlightParam.length <= 102400
  /\ IsList(SField) /\ Len(SField.elems) = 15
  /\ AllNonEmptyStrings(SField.elems)
  /\ TotalChars(SField.elems, 14) <= 1500
  /\ TotalChars(SField.elems, 15) = 1501
  /\ ret = RetNull

\* C3 (as claimed): every input ends in a request or in absence, never in
\* an exception; an absent parameter, a text that is no structured data
\* and a payload that is not an object all end in absence.
C3_FailsClosed ==
  Returned =>
    /\ ret.kind # "exception"
    /\ (~HasParam \/ ~IsJson \/ Payload.kind # "object") => ret = RetNull

\* C4: a request is returned if and only if every data-model invariant
\* holds, and the request carries the entries of `s`, all of them, in
\* their order.
C4_RequestIffInvariants ==
  Returned =>
    /\ ret.kind = "request" <=>
          (HasParam /\ HighlightParam.length <= 102400 /\ ValidContent)
    /\ ret.kind = "request" => ret.sentences = SField.elems

\* a request at both limits (15 entries, 1500 characters, a parameter of
\* 102400 characters) was returned
C4_Witness ==
  /\ Returned /\ ret.kind = "request"
  /\ HighlightParam.length = 102400
  /\ Len(ret.sentences) = 15
  /\ TotalChars(ret.sentences, 15) = 1500

(***************************************************************************)
(* The controller's claims.                                                *)
(***************************************************************************)
\* the locator matched at least one node (stated on the document)
HasMatches == doc.sens /\ doc.nodes # Null /\ Len(doc.nodes.elems) > 0
Matched == IF HasMatches THEN Nodes(doc.nodes) ELSE {}

\* the state tags of the messages sent, in order
Tags == [i \in 1..Len(sent) |-> sent[i].state]
TimesSent(tag) == Cardinality({i \in 1..Len(sent) : sent[i].state = tag})
IsPrefix(a, b) == Len(a) <= Len(b) /\ \A i \in 1..Len(a) : a[i] = b[i]

\* C5: when the locator returns no ranges or no nodes, the controller
\* sends not_found and does nothing else, ever: no node styled, the scroll
\* offset never set, no sentinel, no other message, no click or visibility
\* listener.
C5_NotFoundIsInert ==
  constructed /\ ~HasMatches =>
    /\ sent = <<Msg("not_found")>>
    /\ \A n \in NodeIds : style[n] = NoStyle /\ styleWrites[n] = 0
    /\ setScrollTopCalls = <<>> /\ viewport.scrollTop = 0
    /\ body = {} /\ animations = {} /\ animateCalls = 0
    /\ ~clickListener /\ ~visListener.registered

\* ranges were found but the node list was empty, the dismiss handler is
\* registered and the document is visible: still only not_found
C5_Witness ==
  /\ constructed /\ doc = Ranges(Arr(<<>>))
  /\ dismissHandler /\ visibility = "visible"
  /\ sent = <<Msg("not_found")>>

\* C6: when the locator returns nodes, found is sent exactly once, first,
\* with the offset that calcTopToCenterHighlightedNodes_ gives for the
\* rectangles at initialization as its scroll parameter, and every matched
\* node is styled exactly once (no other node ever), whatever the
\* visibility state.
C6_FoundOnceAndStyledOnce ==
  /\ [](constructed /\ HasMatches =>
          /\ TimesSent("found") = 1 /\ sent[1].state = "found"
          /\ \A n \in NodeIds : styleWrites[n] = IF n \in Matched THEN 1 ELSE 0)
  /\ [][~constructed /\ constructed' /\ HasMatches =>
          /\ sent'[1] =
               FoundMsg(calcTopToCenterHighlightedNodes_(doc.nodes, rect,
                                                         viewport))
          /\ \A n \in Matched : style'[n] = HighlightStyle]_vars
  /\ [][constructed /\ HasMatches => sent'[1] = sent[1]]_vars

\* nodes were found while the document was not visible: found carries a
\* half offset (1655.5) and both nodes are styled
C6_Witness ==
  /\ constructed /\ HasMatches /\ visListener.registered
  /\ Matched = NodeIds
  /\ sent = <<FoundMsg(3311)>>
  /\ \A n \in NodeIds : styleWrites[n] = 1 /\ style[n] = HighlightStyle

\* the rectangles' minimum top and maximum bottom, as sets
RefMinTop(ns) ==
  CHOOSE t \in {rect[n].top : n \in ns} : \A n \in ns : t <= rect[n].top
RefMaxBottom(ns) ==
  CHOOSE b \in {rect[n].bottom : n \in ns} : \A n \in ns : b >= rect[n].bottom
\* the offset of the reference algorithm, in half units
RefOffset ==
  IF highlightedNodes_ = Null \/ Nodes(highlightedNodes_) = {} THEN 0
  ELSE LET minTop == RefMinTop(Nodes(highlightedNodes_))
           maxBottom == RefMaxBottom(Nodes(highlightedNodes_))
           usable == viewport.height - viewport.paddingTop
       IN IF minTop >= maxBottom THEN 0
          ELSE IF maxBottom - minTop > usable THEN 2 * minTop
          ELSE Max(0, maxBottom + minTop - usable)

\* C7 (as claimed): calcTopToCenterHighlightedNodes_ equals the reference
\* on every list of rectangles, height and padding; one node at top 2000,
\* bottom 2020 in a viewport 800 high without padding gives 1610.
C7_CalcEqualsReference ==
  calcResult # Null =>
    /\ calcResult.value = RefOffset
    /\ (/\ highlightedNodes_ = Arr(<<1>>) /\ rect[1] = Rect(2000, 2020)
        /\ viewport.height = 800 /\ viewport.paddingTop = 0)
         => calcResult.value = 2 * 1610

\* the styles after one more dismissal
Once == DismissedStyle(highlightedNodes_, style)

\* C8: from every reachable state a second dismissal changes nothing that
\* the first has not, the first leaves every highlighted node without
\* background and color overrides, and with no nodes found a dismissal
\* changes nothing; a dismiss command changes the styles only.
C8_DismissIdempotent ==
  /\ [](/\ DismissedStyle(highlightedNodes_, Once) = Once
        /\ highlightedNodes_ # Null =>
              \A n \in Nodes(highlightedNodes_) :
                 Once[n].backgroundColor = "" /\ Once[n].color = ""
        /\ highlightedNodes_ = Null => Once = style)
  /\ [][DismissCommand =>
          /\ style' = Once
          /\ DismissedStyle(highlightedNodes_', style') = style'
          /\ UNCHANGED <<parserVars, docVars, constructed, highlightedNodes_,
                         styleWrites, setScrollTopCalls, sent, visListener,
                         clickListener, dismissHandler, body, animations,
                         animateCalls, locateCalls>>]_vars

\* the highlight of two nodes was dismissed by a click and the dismiss
\* handler is there for the second dismissal
C8_Witness ==
  /\ constructed /\ highlightedNodes_ # Null
  /\ Nodes(highlightedNodes_) = NodeIds
  /\ \A n \in NodeIds : styleWrites[n] = 1 /\ style[n] = NoStyle
  /\ ~clickListener /\ dismissHandler

\* C9: the tags of the messages sent are always a prefix of <<not_found>>
\* or of <<found, auto_scroll, shown>>.
C9_MessageOrder ==
  \/ IsPrefix(Tags, <<"not_found">>)
  \/ IsPrefix(Tags, <<"found", "auto_scroll", "shown">>)

\* the whole sequence was sent on the deferred path, with a dismissal on
\* the way and the document hidden again
C9_Witness ==
  /\ Tags = <<"found", "auto_scroll", "shown">>
  /\ visListener.called /\ visibility = "hidden"
  /\ ~clickListener /\ dismissHandler

\* C10: after construction the animation is started only by a
\* visibility-changed event that leaves the state visible, through the
\* registered callback, and only if it was never started before; it is
\* never started twice.
C10_DeferredAnimationOnce ==
  /\ [](animateCalls <= 1 /\ (visListener.called => animateCalls = 1))
  /\ [][constructed /\ animateCalls' # animateCalls =>
          /\ visibility' = "visible"
          /\ visListener.registered /\ ~visListener.called
          /\ visListener'.called
          /\ animateCalls = 0 /\ animateCalls' = 1]_vars

\* the deferred animation ran once and completed, the document went to
\* prerender afterwards
C10_Witness ==
  /\ visListener.registered /\ visListener.called
  /\ animateCalls = 1 /\ animations = {}
  /\ visibility = "prerender"

(***************************************************************************)
(* The controller's claims, continued.                                     *)
(***************************************************************************)
IsAnimEffect(e) ==
  \/ e.op \in {"appendChild", "animateScrollIntoView", "removeChild"}
  \/ e.op = "send" /\ e.state \in {"auto_scroll", "shown"}
\* the steps of the animation sequences, in the order they were made
AnimEffects == SelectSeq(effects, IsAnimEffect)
AnimSteps ==
  [i \in 1..Len(AnimEffects) |->
     IF AnimEffects[i].op = "send" THEN AnimEffects[i].state
     ELSE AnimEffects[i].op]
Last(q) == q[Len(q)]

\* C11: the steps of the animation sequence are made in the order insert
\* the sentinel, send auto_scroll, request the animated scroll to that
\* sentinel, and, only in the step in which the animation completes, send
\* shown and remove that sentinel.
C11_AnimationStepOrder ==
  /\ [](/\ IsPrefix(AnimSteps, <<"appendChild", "auto_scroll",
                                 "animateScrollIntoView", "shown",
                                 "removeChild">>)
        /\ \A i, j \in 1..Len(AnimEffects) :
              AnimEffects[i].op # "send" /\ AnimEffects[j].op # "send"
                => AnimEffects[i].sentinel = AnimEffects[j].sentinel)
  /\ [][TimesSent("shown")' # TimesSent("shown") \/ ~(body \subseteq body')
          => /\ animations # {} /\ animations' = {}
             /\ Last(sent') = Msg("shown") /\ body' = {}]_vars
  /\ [](animations # {} => TimesSent("shown") = 0 /\ body = animations)

\* a whole animation sequence was run, in its five steps
C11_Witness ==
  /\ AnimSteps = <<"appendChild", "auto_scroll", "animateScrollIntoView",
                   "shown", "removeChild">>
  /\ body = {} /\ animations = {}

\* the highlight was reset by a dismissal
Dismissed == Logged("resetStyles")
\* the callback is registered and has not started the animation
Waiting == visListener.registered /\ ~visListener.called

\* C12: once nodes are found the click listener is registered; a click
\* with the listener registered runs the dismissal and removes the
\* listener, so a later click runs nothing; every dismiss command runs the
\* dismissal, whether the controller waits, animates or has shown.
C12_DismissTriggers ==
  /\ [][~constructed /\ constructed' => (clickListener' <=> HasMatches)]_vars
  /\ [][BodyClick /\ clickListener =>
          /\ style' = DismissedStyle(highlightedNodes_, style)
          /\ \A n \in Matched : style'[n] = NoStyle
          /\ ~clickListener']_vars
  /\ [][BodyClick /\ ~clickListener => UNCHANGED vars]_vars
  /\ [][clickListener /\ ~clickListener' => BodyClick]_vars
  /\ [][DismissCommand =>
          /\ style' = DismissedStyle(highlightedNodes_, style)
          /\ \A n \in Matched : style'[n] = NoStyle]_vars
  /\ [](constructed /\ dismissHandler => ENABLED DismissCommand)

\* during a running animation the click listener is gone and the
\* highlight was reset
C12_Witness ==
  /\ constructed /\ HasMatches /\ ~clickListener
  /\ Dismissed /\ animations # {}
  /\ \A n \in Matched : style[n] = NoStyle

\* the offset the constructor computes, in the state before it runs
InitOffset == calcTopToCenterHighlightedNodes_(doc.nodes, rect, viewport)

\* C13: setScrollTop is called only by the constructor, only when nodes
\* were found, the document is not visible and the offset exceeds 1000,
\* with the offset less 1000; in that case it is called, once; no other
\* step calls it.
C13_DirectScrollOnlyWhenHiddenAndFar ==
  /\ [][setScrollTopCalls' # setScrollTopCalls =>
          /\ ~constructed /\ constructed' /\ HasMatches
          /\ visibility # "visible"
          /\ InitOffset > 2 * 1000
          /\ setScrollTopCalls' = <<InitOffset - 2 * 1000>>
          /\ viewport'.scrollTop = InitOffset - 2 * 1000]_vars
  /\ [][/\ ~constructed /\ constructed' /\ HasMatches
         /\ visibility # "visible" /\ InitOffset > 2 * 1000
         => Len(setScrollTopCalls') = 1]_vars
  /\ [][viewport'.scrollTop # viewport.scrollTop /\ UNCHANGED setScrollTopCalls
          => animations # {} /\ animations' = {}]_vars

\* the scroll offset was set to 655.5 (the offset 1655.5 less 1000) and
\* the animation ran later
C13_Witness ==
  /\ setScrollTopCalls = <<1311>>
  /\ visListener.called

\* C14: the animation started by the callback places its sentinel at the
\* offset computed from the rectangles and the viewport of that moment.
C14_DeferredTargetRecomputed ==
  [][constructed /\ animateCalls' # animateCalls =>
       body' = body \cup
         {[id |-> animateCalls + 1,
           top |-> calcTopToCenterHighlightedNodes_(doc.nodes, rect,
                                                    viewport) \div 2]}]_vars

\* the layout changed while the controller waited: the sentinel is at
\* 301 although found reported 1655.5
C14_Witness ==
  /\ visListener.called
  /\ sent[1] = FoundMsg(3311)
  /\ \E s \in body : s.top = 301

\* C15: the held node set is what the single locate step of the
\* constructor produced and no later step changes it; the locator is
\* invoked exactly once.
C15_NodesPopulatedOnce ==
  /\ [](~constructed => highlightedNodes_ = Null /\ locateCalls = 0)
  /\ [](constructed =>
          /\ locateCalls = 1
          /\ highlightedNodes_ = IF HasMatches THEN doc.nodes ELSE Null)
  /\ [][constructed =>
          UNCHANGED <<highlightedNodes_, locateCalls, doc>>]_vars

\* after dismissals, the deferred animation and its completion the node
\* set is still the located one
C15_Witness ==
  /\ Dismissed /\ visListener.called /\ TimesSent("shown") = 1
  /\ highlightedNodes_ = doc.nodes /\ Len(doc.nodes.elems) = 2
  /\ locateCalls = 1

\* C16 (as claimed): once dismissHighlight_ has reset the highlight of a
\* controller that found nodes, the controller holds no node set.
C16_NodesClearedOnDismiss ==
  Dismissed => highlightedNodes_ = Null

\* C16 (amended): once dismissHighlight_ has reset the highlight, the
\* controller still holds the located node set, with every node of it
\* reset.
C16_NodesKeptOnDismiss ==
  Dismissed =>
    /\ highlightedNodes_ # Null
    /\ highlightedNodes_ = doc.nodes
    /\ \A n \in Nodes(highlightedNodes_) : style[n] = NoStyle

\* a dismiss command reset the highlight (the click listener is still
\* registered) and the nodes are held
C16_Witness ==
  /\ Dismissed /\ clickListener /\ dismissHandler
  /\ highlightedNodes_ = Arr(<<2, 1>>)

\* C17: after a dismissal a waiting controller still starts the animation
\* at the next event that makes the document visible, and a running
\* animation still ends with shown sent and the sentinel removed.
C17_DismissCancelsNothing ==
  /\ [](Dismissed /\ Waiting =>
          visibility # "visible" /\ ENABLED VisibilityChanged("visible"))
  /\ [][Dismissed /\ Waiting /\ visibility' = "visible" =>
          /\ animateCalls' = animateCalls + 1
          /\ Last(sent') = Msg("auto_scroll")
          /\ body' # {} /\ animations' = body']_vars
  /\ [](Dismissed /\ animations # {} =>
          ENABLED (\E s \in animations : AnimationDone(s)))
  /\ [][Dismissed /\ animations # {} /\ animations' # animations =>
          /\ Last(sent') = Msg("shown")
          /\ body' = {} /\ animations' = {}]_vars

\* the highlight was reset first, the animation was started afterwards
\* by the callback and has completed
C17_Witness ==
  /\ visListener.called
  /\ \E i, j \in 1..Len(effects) :
        /\ i < j
        /\ effects[i].op = "resetStyles"
        /\ effects[j].op = "appendChild"
  /\ Last(sent) = Msg("shown") /\ body = {}

\* C18: the body holds at most one sentinel, and holds one exactly while
\* auto_scroll was sent and shown was not.
C18_OneMarkerWhileAnimating ==
  /\ Cardinality(body) <= 1
  /\ body # {} <=> (TimesSent("auto_scroll") >= 1 /\ TimesSent("shown") = 0)
  /\ animateCalls <= 1

\* the sentinel is in the body while the animation runs
C18_Witness ==
  /\ Cardinality(body) = 1 /\ animations = body
  /\ Tags = <<"found", "auto_scroll">>

\* C19: once a dismissal has reset the highlight no node is styled again:
\* every node stays without overrides and was styled once at most.
C19_NoRestyleAfterDismiss ==
  /\ [](Dismissed =>
          \A n \in NodeIds : style[n] = NoStyle /\ styleWrites[n] <= 1)
  /\ [][constructed => styleWrites' = styleWrites]_vars
  /\ [][Dismissed => Dismissed' /\ style' = style]_vars

\* the reset came first; the animation was started and completed and a
\* later dismiss command was possible, the nodes are still unstyled
C19_Witness ==
  /\ Dismissed /\ effects[3].op = "resetStyles"
  /\ Tags = <<"found", "auto_scroll", "shown">>
  /\ dismissHandler /\ ~clickListener
  /\ \A n \in NodeIds : style[n] = NoStyle /\ styleWrites[n] = 1

\* C20: with nodes found, whenever the document is visible (at
\* initialization or after a visibility-changed event) auto_scroll has
\* been sent; a requested animation that the viewport service completes
\* leads to shown sent and the sentinel removed; auto_scroll is sent and a
\* sentinel inserted only in a step that ends with the document visible,
\* and shown only after auto_scroll.
C20_FoundPathProgress ==
  /\ [](constructed /\ HasMatches /\ visibility = "visible" =>
          TimesSent("auto_scroll") = 1)
  /\ (animations # {}) ~> (TimesSent("shown") = 1 /\ body = {})
  /\ [][TimesSent("auto_scroll")' # TimesSent("auto_scroll")
          \/ ~(body' \subseteq body) => visibility' = "visible"]_vars
  /\ [](TimesSent("shown") >= 1 \/ body # {} =>
          TimesSent("auto_scroll") >= 1)

\* the document became visible after initialization, the animation ran
\* and completed
C20_Witness ==
  /\ visListener.called /\ visibility = "visible"
  /\ Tags = <<"found", "auto_scroll", "shown">>
  /\ body = {} /\ animations = {}

====
